---- MODULE Spec2Model ----
(***************************************************************************)
(* A model of tochd.py: the job scheduler App.convert, the converter       *)
(* App.convert_file, the archive pipeline App.convert_archive, and the     *)
(* classifier and sibling filters that build the job queue.                *)
(*                                                                         *)
(* A path is a record [dir, stem, suffix].  A suffix is the sequence of    *)
(* the characters after the last dot (<<>> when there is none), so that    *)
(* the case folding of App.match_type is computed, not assumed.  A         *)
(* directory is a record [root, tmp]: tmp = 0 for an ordinary directory,   *)
(* tmp = k for the TemporaryDirectory owned by the k-th queue entry.       *)
(***************************************************************************)
EXTENDS Integers, Sequences, FiniteSets, Bags, TLC

----------------------------------------------------------------------------
(* Bounds of the model *)

MaxQueue == 2
MaxMembers == 2

----------------------------------------------------------------------------
(* Paths *)

Dir(root) == [root |-> root, tmp |-> 0]

TempDirOf(root, k) == [root |-> root, tmp |-> k]

MkPath(dir, stem, suffix) == [dir |-> dir, stem |-> stem, suffix |-> suffix]

chd == <<"c", "h", "d">>
iso == <<"i", "s", "o">>
ISO == <<"I", "S", "O">>
gdi == <<"g", "d", "i">>
cue == <<"c", "u", "e">>
bin == <<"b", "i", "n">>
zip == <<"z", "i", "p">>

\* Path.with_suffix: the last suffix is replaced
with_suffix(p, s) == [p EXCEPT !.suffix = s]

\* Path.with_name: the directory of p, the file name of q
with_name(p, q) == [dir |-> p.dir, stem |-> q.stem, suffix |-> q.suffix]

\* dir_path.joinpath(input_path.name)
joinpath(d, p) == [dir |-> d, stem |-> p.stem, suffix |-> p.suffix]

----------------------------------------------------------------------------
(* Classifier *)

LowerChar(c) ==
    CASE c = "I" -> "i"
      [] c = "S" -> "s"
      [] c = "O" -> "o"
      [] c = "G" -> "g"
      [] c = "D" -> "d"
      [] c = "C" -> "c"
      [] c = "U" -> "u"
      [] c = "E" -> "e"
      [] c = "Z" -> "z"
      [] c = "P" -> "p"
      [] OTHER -> c

lower(s) == [i \in DOMAIN s |-> LowerChar(s[i])]

types ==
    [sheet |-> {gdi, cue},
     image |-> {iso},
     archive |-> {<<"7", "z">>, zip, <<"g", "z">>, <<"g", "z", "i", "p">>,
                  <<"b", "z", "2">>, <<"b", "z", "i", "p", "2">>,
                  <<"r", "a", "r">>, <<"t", "a", "r">>}]

\* App.match_type: the kind of the lowercased extension, "none" for None
match_type(path) ==
    IF path.suffix # <<>>
    THEN LET suffix == lower(path.suffix)
         IN  IF suffix \in types.sheet THEN "sheet"
             ELSE IF suffix \in types.image THEN "image"
             ELSE IF suffix \in types.archive THEN "archive"
             ELSE "none"
    ELSE "none"

\* File.__init__: output_dir is a directory, or NoDir for None
NoDir == [root |-> "", tmp |-> 0]

File(input_path, dir_path) ==
    LET output == IF dir_path # NoDir
                  THEN joinpath(dir_path, input_path)
                  ELSE input_path
    IN  [input |-> input_path,
         output |-> with_suffix(output, chd),
         type |-> match_type(input_path)]

----------------------------------------------------------------------------
(* Filter pipeline *)

Range(s) == {s[i] : i \in DOMAIN s}

\* a pass 1 that spares every sheet of a .gdi directory
filter_other_in_gdi_dirs_SparesSheets(list_of_files) ==
    LET gdi_dirs == {f.input.dir : f \in {g \in Range(list_of_files) : g.input.suffix = gdi}}
        Keep(file) == file.input.dir \notin gdi_dirs \/ file.type = "sheet"
    IN  IF gdi_dirs # {} THEN SelectSeq(list_of_files, Keep) ELSE list_of_files

filter_other_in_gdi_dirs(list_of_files) ==
    LET gdi_dirs == {f.input.dir : f \in {g \in Range(list_of_files) : g.input.suffix = gdi}}
        Keep(file) == file.input.dir \notin gdi_dirs \/ file.input.suffix = gdi
    IN  IF gdi_dirs # {} THEN SelectSeq(list_of_files, Keep) ELSE list_of_files

filter_images_in_sheet_dirs(list_of_files) ==
    LET sheet_dirs == {f.input.dir : f \in {g \in Range(list_of_files) : g.type = "sheet"}}
        Keep(file) == ~(file.input.dir \in sheet_dirs /\ file.input.suffix = iso)
    IN  IF sheet_dirs # {} THEN SelectSeq(list_of_files, Keep) ELSE list_of_files

----------------------------------------------------------------------------
(* The inputs of a run *)

start_index == 1
threads == 2

TopInputs ==
    {MkPath(Dir("d1"), "a", iso), MkPath(Dir("d1"), "a", zip),
     MkPath(Dir("d2"), "a", cue), MkPath(Dir("d2"), "a", iso)}

\* the entries an archive listing can name, relative to the archive's root
MemberNames ==
    {[stem |-> "track", suffix |-> iso], [stem |-> "TWO", suffix |-> ISO],
     [stem |-> "disc", suffix |-> cue], [stem |-> "data", suffix |-> bin]}

SeqsUpTo(S, n) == UNION {[1..m -> S] : m \in 0..n}

Injective(s) == \A i, j \in DOMAIN s : s[i] = s[j] => i = j

Listings == {s \in SeqsUpTo(MemberNames, MaxMembers) : Injective(s)}

\* App.get_supported_file over paths that are files and not hidden
get_supported_file(path, output_dir) == File(path, output_dir)

\* App.get_files: the supported files, then the two filter passes
get_files(paths, output_dir) ==
    LET all == [i \in DOMAIN paths |-> get_supported_file(paths[i], output_dir)]
        Supported(f) == f.type # "none"
        new_list == SelectSeq(all, Supported)
    IN  filter_images_in_sheet_dirs(filter_other_in_gdi_dirs(new_list))

----------------------------------------------------------------------------
(* State *)

VARIABLES
    app,        \* the settings of App.__init__
    files,      \* app.files, the job queue
    fs,         \* the output files that exist on disk
    tempdirs,   \* the queue positions whose TemporaryDirectory exists on disk
    events,     \* the job messages printed so far, in order
    procs,      \* the external processes run so far
    stats,      \* app.stats_started, _skipped, _failed, _completed
    sched,      \* App.convert: position in the loop, last_index, and phase
    jobs,       \* per queue position: where its convert_file/convert_archive call is
    fs0,        \* the output files that existed when the run began
    tools,      \* how the external programs behave in this run
    batch,      \* a list of File objects on its way through the two filter passes
    cmd,        \* the chdman command convert_file builds for one input
    sigints,    \* the SIGINTs received: for each, the jobs then waiting for a process
    exit_status \* whether the process has exited, and with which status

vars == <<app, files, fs, tempdirs, events, procs, stats, sched, jobs, fs0, tools,
          batch, cmd, sigints, exit_status>>

\* the part of the state a job step reads and writes
World == [fs |-> fs, tempdirs |-> tempdirs, events |-> events,
          procs |-> procs, stats |-> stats]

\* a loop that hands every entry the first index
JobIndex_Reused(k) == start_index

JobIndex(k) == start_index + k - 1

\* the process has not exited
Running == [exited |-> FALSE, code |-> 0]

\* pc: where the job's convert_file or convert_archive call is; archlist, member,
\* rc: the locals archlist, the position of file in it, and completed.returncode;
\* existed: what file.output.exists() was when App.convert reached the entry;
\* sig: the external process the job is waiting for has been sent SIGINT
NewJob == [pc |-> "idle", archlist |-> <<>>, member |-> 0, rc |-> 0, existed |-> FALSE,
           sig |-> FALSE]

----------------------------------------------------------------------------
(* Job messages and external processes *)

\* a message_job whose output lands before everything printed so far
message_job_Prepends(w, message, path, job_index) ==
    [w EXCEPT !.events = <<[idx |-> job_index, kind |-> message, path |-> path]>> \o @]

\* App.message_job: the counters are touched only in serial mode
message_job(w, message, path, job_index) ==
    LET counted ==
            IF ~app.parallel
            THEN CASE message = "Started" -> [w.stats EXCEPT !.started = @ + 1]
                   [] message = "Skipped" -> [w.stats EXCEPT !.skipped = @ + 1]
                   [] message = "Failed" -> [w.stats EXCEPT !.failed = @ + 1]
                   [] message = "Completed" -> [w.stats EXCEPT !.completed = @ + 1]
                   [] OTHER -> w.stats
            ELSE w.stats
    IN  [w EXCEPT !.stats = counted,
                  !.events = Append(@, [idx |-> job_index, kind |-> message, path |-> path])]

\* what an external process can do: its exit status, whether it leaves the
\* output file on disk (chdman), the entries it prints (7z l)
ConvOutcomes == [rc : {0, 1}, writes : BOOLEAN, listing : {<<>>}]

ListOutcomes ==
    [rc : {0}, writes : {FALSE}, listing : Listings]
        \cup [rc : {1}, writes : {FALSE}, listing : {<<>>}]

ExtractOutcomes == [rc : {0, 1}, writes : {FALSE}, listing : {<<>>}]

NoOutcome == [rc |-> 0, writes |-> FALSE, listing |-> <<>>]

\* external programs that may answer each invocation differently
AnyTools == [det |-> FALSE, chdman |-> NoOutcome, list |-> NoOutcome, extract |-> NoOutcome]

\* external programs that answer every invocation the same way
DetTools ==
    [det : {TRUE}, chdman : ConvOutcomes,
     list : {o \in ListOutcomes : Len(o.listing) <= 1 \/ o.listing[1].suffix = iso},
     extract : ExtractOutcomes]

\* what the named program can do when it is run
ToolOutcomes(tool) ==
    IF tools.det THEN {tools[tool]}
    ELSE CASE tool = "chdman" -> ConvOutcomes
           [] tool = "list" -> ListOutcomes
           [] tool = "extract" -> ExtractOutcomes

\* one run of an external program by queue position k
Proc(tool, k, input, out) == [tool |-> tool, job |-> k, input |-> input]

\* App.run_convert_process for chdman: the process may leave file.output on disk
run_chdman(w, k, file, out) ==
    [w EXCEPT !.procs = @ \cup {Proc("chdman", k, file.input, out)},
              !.fs = IF out.writes THEN @ \cup {file.output} ELSE @]

----------------------------------------------------------------------------
(* App.convert_file *)

\* line 255: the Started message, not for the sentinel index 0
cf_started(w, file, job_index) ==
    IF job_index # 0 THEN message_job(w, "Started", file.input, job_index) ELSE w

\* line 278: the test that decides Completed or Failed
ConvertSucceeded(returncode, output, disk) == returncode = 0 /\ output \in disk

\* a converter that reports nothing when the conversion failed
cf_outcome_SilentFailure(w, file, job_index, returncode) ==
    IF job_index # 0
    THEN IF returncode = 0 /\ file.output \in w.fs
         THEN message_job(w, "Completed", file.output, job_index)
         ELSE [w EXCEPT !.fs = @ \ {file.output}]
    ELSE w

\* lines 277-282: the outcome, not evaluated for the sentinel index 0
cf_outcome(w, file, job_index, returncode) ==
    IF job_index # 0
    THEN IF ConvertSucceeded(returncode, file.output, w.fs)
         THEN message_job(w, "Completed", file.output, job_index)
         ELSE message_job([w EXCEPT !.fs = @ \ {file.output}],
                          "Failed", file.output, job_index)
    ELSE w

----------------------------------------------------------------------------
(* App.convert_archive *)

TempDir(archive, k) == TempDirOf(archive.output.dir.root, k)

\* App.listing_from_archive: the printed paths without the first, as Files
\* under the archive's temporary directory; [] when 7z fails
listing_from_archive(archive, k, out) ==
    IF out.rc = 0
    THEN LET printed == <<[stem |-> archive.input.stem, suffix |-> archive.input.suffix]>>
                            \o out.listing
             listing == Tail(printed)
         IN  [i \in DOMAIN listing |->
                 File(MkPath(TempDir(archive, k), listing[i].stem, listing[i].suffix), NoDir)]
    ELSE <<>>

\* lines 290-295: the members that will be converted
FilterArchlist(listed) ==
    LET IsDisc(f) == f.type = "image" \/ f.type = "sheet"
        IsSheet(f) == f.type = "sheet"
        NotIso(f) == ~(f.input.suffix = iso)
        passed == filter_images_in_sheet_dirs(
                      filter_other_in_gdi_dirs(SelectSeq(listed, IsDisc)))
    IN  IF SelectSeq(passed, IsSheet) # <<>> THEN SelectSeq(passed, NotIso) ELSE passed

\* the two branches of lines 313-316 exchanged
DestPath_Exchanged(archive, file, no_rename) ==
    IF no_rename THEN archive.output ELSE with_name(archive.output, file.output)

\* a pipeline that never renames to the archive
DestPath_MemberName(archive, file, no_rename) == with_name(archive.output, file.output)

\* lines 313-316: where a converted member goes
DestPath(archive, file, no_rename) ==
    IF no_rename THEN with_name(archive.output, file.output) ELSE archive.output

\* TemporaryDirectory.cleanup: the directory and everything in it
cleanup(w, archive, k) ==
    [w EXCEPT !.tempdirs = @ \ {k},
              !.fs = {p \in @ : p.dir # TempDir(archive, k)}]

----------------------------------------------------------------------------
(* The steps of one job.  A job blocks at each external process, so a step  *)
(* is one process together with the code up to the next one, or one        *)
(* access to the shared disk.  Each step maps the job j at queue position  *)
(* k and the world w to the job and world after it; out is what the        *)
(* external process of the step does.                                      *)

Result(j, w) == [j |-> j, w |-> w]

\* the call is over: its locals are gone; archlist is kept as a record of the job
Ended(j) == [j EXCEPT !.pc = "done", !.member = 0, !.rc = 0]

Raised(j) == [j EXCEPT !.pc = "raised", !.member = 0, !.rc = 0]

\* convert_file, lines 255-256
CfStart(k, j, w, out) ==
    Result([j EXCEPT !.pc = "cf_run"], cf_started(w, files[k], JobIndex(k)))

\* convert_file, lines 257-276
CfRun(k, j, w, out) ==
    Result([j EXCEPT !.pc = "cf_check", !.rc = out.rc], run_chdman(w, k, files[k], out))

\* convert_file, lines 277-283
CfCheck(k, j, w, out) ==
    Result(Ended(j), cf_outcome(w, files[k], JobIndex(k), j.rc))

\* convert_archive, line 288
CaStart(k, j, w, out) ==
    Result([j EXCEPT !.pc = "ca_list"],
           message_job(w, "Started", files[k].input, JobIndex(k)))

\* an archive pipeline that goes on to extract an archive without eligible members
CaList_ExtractsEmpty(k, j, w, out) ==
    LET archive == files[k]
        archlist == FilterArchlist(listing_from_archive(archive, k, out))
        listed == [w EXCEPT !.procs = @ \cup {Proc("7z l", k, archive.input, out)}]
    IN  IF archlist = <<>>
        THEN Result(Ended([j EXCEPT !.archlist = archlist]),
                    cleanup(message_job([listed EXCEPT !.procs =
                                            @ \cup {Proc("7z x", k, archive.input, out)}],
                                        "Failed", archive.output, JobIndex(k)),
                            archive, k))
        ELSE Result([j EXCEPT !.pc = "ca_extract", !.archlist = archlist], listed)

\* convert_archive, lines 289-299
CaList(k, j, w, out) ==
    LET archive == files[k]
        archlist == FilterArchlist(listing_from_archive(archive, k, out))
        listed == [w EXCEPT !.procs = @ \cup {Proc("7z l", k, archive.input, out)}]
    IN  IF archlist = <<>>
        THEN Result(Ended([j EXCEPT !.archlist = archlist]),
                    message_job(listed, "Failed", archive.output, JobIndex(k)))
        ELSE Result([j EXCEPT !.pc = "ca_extract", !.archlist = archlist], listed)

\* convert_archive, lines 301-310 and 324-328
CaExtract(k, j, w, out) ==
    LET archive == files[k]
        extracted == [w EXCEPT !.procs = @ \cup {Proc("7z x", k, archive.input, out)}]
    IN  IF out.rc = 0
        THEN Result([j EXCEPT !.pc = "ca_convert", !.member = 1], extracted)
        ELSE Result(Ended(j),
                    cleanup(message_job(extracted, "Failed", archive.output, JobIndex(k)),
                            archive, k))

\* the end of one round of the loop of line 311, and lines 327-328 after the last
NextMember(k, j, w) ==
    IF j.member < Len(j.archlist)
    THEN Result([j EXCEPT !.pc = "ca_convert", !.member = @ + 1, !.rc = 0], w)
    ELSE Result(Ended(j), cleanup(w, files[k], k))

\* convert_archive, line 312: convert_file with the sentinel index 0
CaConvert(k, j, w, out) ==
    LET file == j.archlist[j.member]
        ran == run_chdman(cf_started(w, file, 0), k, file, out)
    IN  Result([j EXCEPT !.pc = "ca_unlink", !.rc = out.rc],
               cf_outcome(ran, file, 0, out.rc))

\* convert_archive, lines 313-318 and 322-323
CaUnlink(k, j, w, out) ==
    LET dest_path == DestPath(files[k], j.archlist[j.member], app.no_rename)
        unlinked == [w EXCEPT !.fs = @ \ {dest_path}]
    IN  IF j.rc = 0
        THEN Result([j EXCEPT !.pc = "ca_move"], unlinked)
        ELSE NextMember(k, j, message_job(unlinked, "Failed", dest_path, JobIndex(k)))

\* convert_archive, line 319: shutil.move raises when the source is missing
CaMove(k, j, w, out) ==
    LET file == j.archlist[j.member]
        dest_path == DestPath(files[k], file, app.no_rename)
    IN  IF file.output \in w.fs
        THEN Result([j EXCEPT !.pc = "ca_exists"],
                    [w EXCEPT !.fs = (@ \ {file.output}) \cup {dest_path}])
        ELSE Result(Raised(j), w)

\* convert_archive, lines 320-321
CaExists(k, j, w, out) ==
    LET dest_path == DestPath(files[k], j.archlist[j.member], app.no_rename)
    IN  NextMember(k, j, IF dest_path \in w.fs
                         THEN message_job(w, "Completed", dest_path, JobIndex(k))
                         ELSE w)

ActivePcs == {"cf_start", "cf_run", "cf_check", "ca_start", "ca_list", "ca_extract",
              "ca_convert", "ca_unlink", "ca_move", "ca_exists"}

JobStep(k, j, w, out) ==
    CASE j.pc = "cf_start" -> CfStart(k, j, w, out)
      [] j.pc = "cf_run" -> CfRun(k, j, w, out)
      [] j.pc = "cf_check" -> CfCheck(k, j, w, out)
      [] j.pc = "ca_start" -> CaStart(k, j, w, out)
      [] j.pc = "ca_list" -> CaList(k, j, w, out)
      [] j.pc = "ca_extract" -> CaExtract(k, j, w, out)
      [] j.pc = "ca_convert" -> CaConvert(k, j, w, out)
      [] j.pc = "ca_unlink" -> CaUnlink(k, j, w, out)
      [] j.pc = "ca_move" -> CaMove(k, j, w, out)
      [] j.pc = "ca_exists" -> CaExists(k, j, w, out)

----------------------------------------------------------------------------
(* App.convert: the scheduler *)

\* a scheduler that forgets the test of line 219
ShouldSkip_NoExistsTest(file, dry_run, disk) ==
    \/ dry_run
    \/ file.type \notin {"image", "sheet", "archive"}

\* lines 216-221 and 244-246: the entries that get Skipped instead of a job
ShouldSkip(file, dry_run, disk) ==
    \/ dry_run
    \/ file.output \in disk
    \/ file.type \notin {"image", "sheet", "archive"}

Reached(k) ==
    /\ sched.pc = "loop"
    /\ k = sched.next
    /\ k \in DOMAIN files

Advance == [sched EXCEPT !.next = @ + 1, !.last_index = JobIndex(sched.next) + 1]

SetWorld(w) ==
    /\ fs' = w.fs
    /\ tempdirs' = w.tempdirs
    /\ events' = w.events
    /\ procs' = w.procs
    /\ stats' = w.stats

\* lines 214-221, 244-246
ConvertSkip(k) ==
    /\ Reached(k)
    /\ ShouldSkip(files[k], app.dry_run, fs)
    /\ SetWorld(message_job(World, "Skipped", files[k].input, JobIndex(k)))
    /\ jobs' = [jobs EXCEPT ![k] = [@ EXCEPT !.pc = "skipped",
                                             !.existed = files[k].output \in fs]]
    /\ sched' = Advance
    /\ UNCHANGED <<app, files, fs0, tools, batch, cmd, sigints, exit_status>>

\* lines 222-243: apply_async in parallel mode, a plain call in serial mode
Dispatch(k, entry) ==
    /\ Reached(k)
    /\ ~ShouldSkip(files[k], app.dry_run, fs)
    /\ jobs' = [jobs EXCEPT ![k] = [@ EXCEPT !.pc = IF app.parallel THEN "queued" ELSE entry,
                                             !.existed = files[k].output \in fs]]
    /\ sched' = IF app.parallel THEN Advance ELSE [Advance EXCEPT !.pc = "call"]
    /\ UNCHANGED <<app, files, fs, tempdirs, events, procs, stats, fs0, tools, batch, cmd, sigints, exit_status>>

\* lines 222-232
ConvertDispatchFile(k) ==
    /\ files[k].type \in {"image", "sheet"}
    /\ Dispatch(k, "cf_start")

\* lines 233-243
ConvertDispatchArchive(k) ==
    /\ files[k].type = "archive"
    /\ Dispatch(k, "ca_start")

Executing == {k \in DOMAIN jobs : jobs[k].pc \in ActivePcs}

Queued == {k \in DOMAIN jobs : jobs[k].pc = "queued"}

\* lines 247-250: the end of the loop; in parallel mode close and join
ConvertEndLoop ==
    /\ sched.pc = "loop"
    /\ sched.next > Len(files)
    /\ sched' = [sched EXCEPT !.pc = IF app.parallel THEN "join" ELSE "returned"]
    /\ UNCHANGED <<app, files, fs, tempdirs, events, procs, stats, jobs, fs0, tools, batch, cmd, sigints, exit_status>>

\* a join that does not wait for the workers
PoolJoin_NoWait ==
    /\ sched.pc = "join"
    /\ sched' = [sched EXCEPT !.pc = "returned"]
    /\ UNCHANGED <<app, files, fs, tempdirs, events, procs, stats, jobs, fs0, tools, batch, cmd, sigints, exit_status>>

\* pool.join returns when no task is pending or running
PoolJoin ==
    /\ sched.pc = "join"
    /\ Queued = {}
    /\ Executing = {}
    /\ sched' = [sched EXCEPT !.pc = "returned"]
    /\ UNCHANGED <<app, files, fs, tempdirs, events, procs, stats, jobs, fs0, tools, batch, cmd, sigints, exit_status>>

\* a job step takes effect; in serial mode the end of the job returns to the
\* loop of App.convert, and an exception leaves App.convert and ends the run;
\* in parallel mode the pool keeps the exception in a result nobody reads
Apply(k, r) ==
    /\ jobs' = [jobs EXCEPT ![k] = [r.j EXCEPT !.sig = FALSE]]
    /\ SetWorld(r.w)
    /\ sched' = IF app.parallel THEN sched
                ELSE IF r.j.pc = "done" THEN [sched EXCEPT !.pc = "loop"]
                ELSE IF r.j.pc = "raised" THEN [sched EXCEPT !.pc = "crashed"]
                ELSE sched
    /\ UNCHANGED <<app, files, fs0, tools, batch, cmd, sigints, exit_status>>

\* what the external program can do for job k: a process that was sent SIGINT
\* does not exit with 0
Answers(k, tool) == {o \in ToolOutcomes(tool) : jobs[k].sig => o.rc # 0}

\* a pool that starts a worker for every task
PoolTake_NoLimit(k) ==
    /\ app.parallel
    /\ k \in Queued
    /\ \A q \in Queued : k <= q
    /\ Apply(k, JobStep(k, [jobs[k] EXCEPT !.pc = IF files[k].type = "archive"
                                                    THEN "ca_start" ELSE "cf_start"],
                        World, NoOutcome))

\* multiprocessing.Pool(processes=self.threads): a free worker takes the oldest
\* submitted task and runs its function up to the first external process,
\* which is the Started message (lines 255-256, 288)
PoolTake(k) ==
    /\ app.parallel
    /\ k \in Queued
    /\ \A q \in Queued : k <= q
    /\ Cardinality(Executing) < app.threads
    /\ Apply(k, JobStep(k, [jobs[k] EXCEPT !.pc = IF files[k].type = "archive"
                                                    THEN "ca_start" ELSE "cf_start"],
                        World, NoOutcome))

DoCfStart(k) ==
    /\ jobs[k].pc = "cf_start"
    /\ Apply(k, CfStart(k, jobs[k], World, NoOutcome))

DoCfRun(k) ==
    /\ jobs[k].pc = "cf_run"
    /\ \E out \in Answers(k, "chdman") : Apply(k, CfRun(k, jobs[k], World, out))

DoCfCheck(k) ==
    /\ jobs[k].pc = "cf_check"
    /\ Apply(k, CfCheck(k, jobs[k], World, NoOutcome))

DoCaStart(k) ==
    /\ jobs[k].pc = "ca_start"
    /\ Apply(k, CaStart(k, jobs[k], World, NoOutcome))

DoCaList(k) ==
    /\ jobs[k].pc = "ca_list"
    /\ \E out \in Answers(k, "list") : Apply(k, CaList(k, jobs[k], World, out))

DoCaExtract(k) ==
    /\ jobs[k].pc = "ca_extract"
    /\ \E out \in Answers(k, "extract") : Apply(k, CaExtract(k, jobs[k], World, out))

DoCaConvert(k) ==
    /\ jobs[k].pc = "ca_convert"
    /\ \E out \in Answers(k, "chdman") : Apply(k, CaConvert(k, jobs[k], World, out))

DoCaUnlink(k) ==
    /\ jobs[k].pc = "ca_unlink"
    /\ Apply(k, CaUnlink(k, jobs[k], World, NoOutcome))

DoCaMove(k) ==
    /\ jobs[k].pc = "ca_move"
    /\ Apply(k, CaMove(k, jobs[k], World, NoOutcome))

DoCaExists(k) ==
    /\ jobs[k].pc = "ca_exists"
    /\ Apply(k, CaExists(k, jobs[k], World, NoOutcome))

\* no list is being filtered, no command is being built
NoBatch == [given |-> <<>>, pass1 |-> <<>>, pass2 |-> <<>>, passes |-> 0]

NoCommand == [mode |-> "auto", st_size |-> [mib |-> 0, rem |-> 0], subcommand |-> "none"]

\* -p, -X, -R and -o in every combination, with -p also -t 1, without -E
Settings ==
    {a \in [parallel : BOOLEAN, dry_run : BOOLEAN, no_rename : BOOLEAN,
            output_dir : {NoDir, Dir("out")}, threads : {1, threads},
            emergency_break : {FALSE}] :
        ~a.parallel => a.threads = threads}

\* the state after App.__init__ with settings from A and the external programs
\* behaving as in T
InitApp(T, A) ==
    /\ tools \in T
    /\ app \in A
    /\ \E paths \in SeqsUpTo(TopInputs, MaxQueue) :
          /\ paths # <<>>
          /\ Injective(paths)
          /\ files = get_files(paths, app.output_dir)
    /\ fs \in SUBSET {files[k].output : k \in DOMAIN files}
    /\ fs0 = fs
    /\ tempdirs = {k \in DOMAIN files : files[k].type = "archive"}
    /\ events = <<>>
    /\ procs = {}
    /\ stats = [started |-> 0, skipped |-> 0, failed |-> 0, completed |-> 0]
    /\ sched = [next |-> 1, last_index |-> start_index, pc |-> "loop"]
    /\ jobs = [k \in DOMAIN files |-> NewJob]
    /\ batch = NoBatch
    /\ cmd = NoCommand
    /\ sigints = <<>>
    /\ exit_status = Running

InitWith(T) == InitApp(T, Settings)

Init == InitWith({AnyTools})

\* a run in which every external program is a function of nothing: it answers
\* every invocation the same way
InitDet == InitWith(DetTools)

Next ==
    \/ ConvertEndLoop
    \/ PoolJoin
    \/ \E k \in DOMAIN files :
          \/ ConvertSkip(k)
          \/ ConvertDispatchFile(k)
          \/ ConvertDispatchArchive(k)
          \/ PoolTake(k)
          \/ DoCfStart(k)
          \/ DoCfRun(k)
          \/ DoCfCheck(k)
          \/ DoCaStart(k)
          \/ DoCaList(k)
          \/ DoCaExtract(k)
          \/ DoCaConvert(k)
          \/ DoCaUnlink(k)
          \/ DoCaMove(k)
          \/ DoCaExists(k)

Spec == Init /\ [][Next]_vars

SpecDet == InitDet /\ [][Next]_vars

----------------------------------------------------------------------------
(* Signals and the end of the process: main, lines 689-713 and 740-754 *)

MaxInterrupts == 1

\* where a job waits for an external process (subprocess.run)
ExternalPcs == {"cf_run", "ca_list", "ca_extract", "ca_convert"}

Blocked == {k \in DOMAIN jobs : jobs[k].pc \in ExternalPcs}

\* SIGINT arrives; group: it was sent to the whole process group (Ctrl+c), so
\* the workers and the external processes get it too.  signal_sigint (lines
\* 689-696) raises SystemExit(3) and catches it; only with emergency_break it
\* raises SystemExit(255), which leaves App.convert in the main process and
\* the job function in a worker that got the signal.  Without emergency_break
\* nothing happens in Python, and an external process that got the signal dies.
SigInt(group) ==
    /\ exit_status = Running
    /\ sched.pc \in {"loop", "call", "join", "returned"}
    /\ Len(sigints) < MaxInterrupts
    /\ sigints' = Append(sigints, [blocked |-> Blocked])
    /\ IF app.emergency_break
       THEN /\ sched' = [sched EXCEPT !.pc = "sysexit"]
            /\ jobs' = [k \in DOMAIN jobs |->
                          IF jobs[k].pc \in ActivePcs /\ (~app.parallel \/ group)
                          THEN [jobs[k] EXCEPT !.pc = "interrupted"]
                          ELSE jobs[k]]
       ELSE /\ sched' = sched
            /\ jobs' = [k \in DOMAIN jobs |->
                          IF group /\ k \in Blocked
                          THEN [jobs[k] EXCEPT !.sig = TRUE]
                          ELSE jobs[k]]
    /\ UNCHANGED <<app, files, fs, tempdirs, events, procs, stats, fs0, tools,
                   batch, cmd, exit_status>>

\* sys.exit(main()), line 754: status 0 after return 0 (line 750), 1 after an
\* uncaught exception, 255 after SystemExit(255).  The atexit call of
\* signal_sigint (line 711) changes no status.  The interpreter finalizes every
\* TemporaryDirectory and terminates the pool with its workers.
Exit ==
    /\ exit_status = Running
    /\ sched.pc \in {"returned", "crashed", "sysexit"}
    /\ exit_status' = [exited |-> TRUE,
                       code |-> CASE sched.pc = "returned" -> 0
                                  [] sched.pc = "crashed" -> 1
                                  [] sched.pc = "sysexit" -> 255]
    /\ jobs' = [k \in DOMAIN jobs |->
                  IF jobs[k].pc \in ActivePcs \cup {"queued"}
                  THEN [jobs[k] EXCEPT !.pc = "terminated"]
                  ELSE jobs[k]]
    /\ tempdirs' = {}
    /\ fs' = {p \in fs : \A k \in tempdirs : p.dir # TempDir(files[k], k)}
    /\ UNCHANGED <<app, files, events, procs, stats, sched, fs0, tools, batch, cmd,
                   sigints>>

\* -p and -E in every combination
SignalSettings ==
    [parallel : BOOLEAN, dry_run : {FALSE}, no_rename : {FALSE},
     output_dir : {NoDir}, threads : {threads}, emergency_break : BOOLEAN]

InitSignals == InitApp({AnyTools}, SignalSettings)

NextSignals ==
    \/ Next
    \/ \E group \in BOOLEAN : SigInt(group)
    \/ Exit

SpecSignals == InitSignals /\ [][NextSignals]_vars

----------------------------------------------------------------------------
(* The filter pipeline on its own: lines 175-176 and 291-292 *)

MaxBatch == 3

\* a directory with a .gdi and its companions, a directory with a sheet, images
\* spelled in both cases and an unsupported file
BatchInputs ==
    {MkPath(Dir("d1"), "a", gdi), MkPath(Dir("d1"), "a", bin),
     MkPath(Dir("d1"), "a", cue),
     MkPath(Dir("d2"), "b", iso), MkPath(Dir("d2"), "B", ISO),
     MkPath(Dir("d2"), "b", cue), MkPath(Dir("d2"), "b", bin)}

Batches ==
    {[i \in DOMAIN s |-> File(s[i], NoDir)] : s \in SeqsUpTo(BatchInputs, MaxBatch)}

\* no run: an App with an empty queue
NoRun ==
    /\ tools = AnyTools
    /\ app = [parallel |-> FALSE, dry_run |-> FALSE, no_rename |-> FALSE,
              output_dir |-> NoDir, threads |-> threads, emergency_break |-> FALSE]
    /\ files = <<>>
    /\ fs = {}
    /\ fs0 = {}
    /\ tempdirs = {}
    /\ events = <<>>
    /\ procs = {}
    /\ stats = [started |-> 0, skipped |-> 0, failed |-> 0, completed |-> 0]
    /\ sched = [next |-> 1, last_index |-> start_index, pc |-> "loop"]
    /\ jobs = <<>>
    /\ sigints = <<>>
    /\ exit_status = Running

InitFilter ==
    /\ NoRun
    /\ \E l \in Batches : batch = [given |-> l, pass1 |-> <<>>, pass2 |-> <<>>, passes |-> 0]
    /\ cmd = NoCommand

\* line 175, line 291
FilterPass1 ==
    /\ batch.given # <<>>
    /\ batch.passes = 0
    /\ batch' = [batch EXCEPT !.pass1 = filter_other_in_gdi_dirs(batch.given),
                              !.passes = 1]
    /\ UNCHANGED <<app, files, fs, tempdirs, events, procs, stats, sched, jobs, fs0,
                   tools, cmd, sigints, exit_status>>

\* line 176, line 292
FilterPass2 ==
    /\ batch.passes = 1
    /\ batch' = [batch EXCEPT !.pass2 = filter_images_in_sheet_dirs(batch.pass1),
                              !.passes = 2]
    /\ UNCHANGED <<app, files, fs, tempdirs, events, procs, stats, sched, jobs, fs0,
                   tools, cmd, sigints, exit_status>>

NextFilter == FilterPass1 \/ FilterPass2

SpecFilter == InitFilter /\ [][NextFilter]_vars

----------------------------------------------------------------------------
(* The chdman sub-command on its own: lines 52-62 and 258-267 *)

MiB == 1048576

\* a size in bytes is mib * 2^20 + rem with 0 <= rem < 2^20
Sizes == [mib : {0, 749, 750, 751}, rem : {0, 1, 524, 525, 65536, MiB - 1}]

Modes == {"auto", "cd", "dvd"}

\* File.get_size("MB") in thousandths: st_size / 1024 ** 2 rounded to three
\* decimals, ties to even as round() does
get_size_MB(st_size) ==
    LET n == st_size.rem * 1000
        q == n \div MiB
        r == n % MiB
        up == 2 * r > MiB \/ (2 * r = MiB /\ q % 2 = 1)
    IN  st_size.mib * 1000 + q + (IF up THEN 1 ELSE 0)

\* lines 258-267
Subcommand(mode, st_size) ==
    CASE mode = "auto" -> IF get_size_MB(st_size) > 750 * 1000
                          THEN "createdvd" ELSE "createcd"
      [] mode = "cd" -> "createcd"
      [] mode = "dvd" -> "createdvd"

InitCommand ==
    /\ NoRun
    /\ batch = NoBatch
    /\ \E mode \in Modes, st_size \in Sizes :
          cmd = [mode |-> mode, st_size |-> st_size, subcommand |-> "none"]

\* lines 257-267: the command gets its sub-command
BuildCommand ==
    /\ cmd.subcommand = "none"
    /\ cmd' = [cmd EXCEPT !.subcommand = Subcommand(cmd.mode, cmd.st_size)]
    /\ UNCHANGED <<app, files, fs, tempdirs, events, procs, stats, sched, jobs, fs0,
                   tools, batch, sigints, exit_status>>

NextCommand == BuildCommand

SpecCommand == InitCommand /\ [][NextCommand]_vars

----------------------------------------------------------------------------
(* What a run shows of one queue entry *)

EventsOf(k) == SelectSeq(events, LAMBDA e : e.idx = JobIndex(k))

KindsOf(k) == [i \in DOMAIN EventsOf(k) |-> EventsOf(k)[i].kind]

Terminal(e) == e.kind \in {"Skipped", "Failed", "Completed"}

TerminalCount(k) == Len(SelectSeq(EventsOf(k), Terminal))

ProcsOf(k) == {p \in procs : p.job = k}

ScheduledEntries == {k \in DOMAIN files : k < sched.next}

----------------------------------------------------------------------------
(* C1 *)

AllOutputsPresentAtStart == \A k \in DOMAIN files : files[k].output \in fs0

\* C1: an entry that App.convert reaches in dry-run mode, or while its output
\* file exists, gets the single event Skipped and no external process is ever
\* run for it; and a run that starts with every output present prints only
\* Skipped events and runs no process at all.
C1_SkippedRunsNothing ==
    /\ \A k \in ScheduledEntries :
          (app.dry_run \/ jobs[k].existed) =>
              /\ KindsOf(k) = <<"Skipped">>
              /\ ProcsOf(k) = {}
    /\ AllOutputsPresentAtStart =>
          /\ \A i \in DOMAIN events : events[i].kind = "Skipped"
          /\ procs = {}

\* a finished run without dry-run in which one entry was skipped because its
\* output existed while another was converted by an external process
C1_Witness ==
    /\ ~app.dry_run
    /\ sched.pc = "returned"
    /\ \E k \in DOMAIN files : jobs[k].existed /\ jobs[k].pc = "skipped"
    /\ procs # {}

----------------------------------------------------------------------------
(* C2 *)

JobOver(k) == jobs[k].pc \in {"skipped", "done"}

IsArchiveJob(k) == files[k].type = "archive" /\ jobs[k].pc # "skipped"

Max(a, b) == IF a >= b THEN a ELSE b

----------------------------------------------------------------------------
(* C3 *)

\* C3: an archive job that printed Started and is over has deleted its
\* temporary directory, whichever way it ended.
C3_TempDirReleased ==
    \A k \in DOMAIN files :
        IsArchiveJob(k) /\ jobs[k].pc = "done" /\ "Started" \in Range(KindsOf(k))
            => k \notin tempdirs

----------------------------------------------------------------------------
(* C4 *)

ListedEmpty(k) ==
    /\ IsArchiveJob(k)
    /\ \E p \in ProcsOf(k) : p.tool = "7z l"
    /\ jobs[k].archlist = <<>>

\* C4: an archive job whose member list is empty after filtering, which
\* includes a failed listing, prints exactly one Failed and no Completed,
\* and runs neither 7z x nor chdman.
C4_EmptyArchiveFailsOnce ==
    \A k \in DOMAIN files :
        ListedEmpty(k) =>
            /\ KindsOf(k) = <<"Started", "Failed">>
            /\ \A p \in ProcsOf(k) : p.tool = "7z l"
            /\ jobs[k].pc = "done"

\* an archive job that listed no eligible member is over while another job
\* of the run has used chdman
C4_Witness ==
    /\ \E k \in DOMAIN files : ListedEmpty(k) /\ jobs[k].pc = "done"
    /\ \E p \in procs : p.tool = "chdman"

----------------------------------------------------------------------------
(* C5 *)

\* what the external process of a step does when the tools answer every
\* invocation the same way
DetOutcome(pc) ==
    CASE pc \in {"cf_run", "ca_convert"} -> tools.chdman
      [] pc = "ca_list" -> tools.list
      [] pc = "ca_extract" -> tools.extract
      [] OTHER -> NoOutcome

RECURSIVE RunJob(_, _, _)
\* a job function called directly (lines 232, 243): its steps one after another
RunJob(k, j, w) ==
    IF j.pc \in ActivePcs
    THEN LET r == JobStep(k, j, w, DetOutcome(j.pc)) IN RunJob(k, r.j, r.w)
    ELSE Result(j, w)

RECURSIVE SerialConvert(_, _)
\* App.convert with self.parallel false, from queue position k in world w: the
\* loop of lines 214-246; an exception of a job ends it
SerialConvert(k, w) ==
    IF k > Len(files) THEN w
    ELSE IF ShouldSkip(files[k], app.dry_run, w.fs)
    THEN SerialConvert(k + 1, message_job(w, "Skipped", files[k].input, JobIndex(k)))
    ELSE LET entry == IF files[k].type = "archive" THEN "ca_start" ELSE "cf_start"
             r == RunJob(k, [NewJob EXCEPT !.pc = entry], w)
         IN  IF r.j.pc = "raised" THEN r.w ELSE SerialConvert(k + 1, r.w)

\* the world in which the run began
InitialWorld ==
    [fs |-> fs0,
     tempdirs |-> {k \in DOMAIN files : files[k].type = "archive"},
     events |-> <<>>,
     procs |-> {},
     stats |-> [started |-> 0, skipped |-> 0, failed |-> 0, completed |-> 0]]

\* the events as (input, outcomeKind) pairs, each with the number of times it occurs
PairBag(evs) ==
    LET pair(e) == <<files[e.idx - start_index + 1].input, e.kind>>
        pairs == [i \in DOMAIN evs |-> pair(evs[i])]
    IN  [x \in Range(pairs) |-> Cardinality({i \in DOMAIN pairs : pairs[i] = x})]

\* the serial run of the model prints what SerialConvert computes
SerialReferenceAgrees ==
    ~app.parallel /\ sched.pc \in {"returned", "crashed"}
        => events = SerialConvert(1, InitialWorld).events

\* C5: with tools that answer every invocation the same way, a parallel run
\* that has returned has printed the same multiset of (input, outcomeKind)
\* pairs as the serial run over the same queue and the same disk.
C5_ParallelEqualsSerial ==
    app.parallel /\ sched.pc = "returned"
        => PairBag(events) = PairBag(SerialConvert(1, InitialWorld).events)

----------------------------------------------------------------------------
(* C6 *)

LastEvent(evs) == evs[Len(evs)]

\* the step in which job k leaves the program point pc
Leaves(k, pc) == jobs[k].pc = pc /\ jobs'[k].pc # pc

\* C6: a conversion counts as a success exactly when chdman exited with 0 and
\* the output file is on disk.  For a queue entry (job index not 0) the step
\* after chdman prints Completed in that case and Failed in every other.  For
\* an archive member (sentinel index 0) the pipeline goes on to move the
\* output in that case and prints Failed for the member in every other.
C6_SuccessIffZeroAndOutput ==
    [][\A k \in DOMAIN files :
          /\ Leaves(k, "cf_check") =>
                /\ Len(events') = Len(events) + 1
                /\ LastEvent(events').idx = JobIndex(k)
                /\ LastEvent(events').kind =
                       IF jobs[k].rc = 0 /\ files[k].output \in fs
                       THEN "Completed" ELSE "Failed"
          /\ Leaves(k, "ca_unlink") =>
                IF jobs[k].rc = 0 /\ jobs[k].archlist[jobs[k].member].output \in fs
                THEN jobs'[k].pc = "ca_move"
                ELSE /\ Len(events') = Len(events) + 1
                     /\ LastEvent(events').idx = JobIndex(k)
                     /\ LastEvent(events').kind = "Failed"]_vars

----------------------------------------------------------------------------
(* C7 *)

\* C7: when a converter invocation that failed has returned, no file is at the
\* entry's output path: for a queue entry after the step that prints Failed,
\* for an archive member (sentinel index 0) when convert_file has returned to
\* the archive pipeline.
C7_FailedLeavesNoOutput ==
    [][\A k \in DOMAIN files :
          /\ Leaves(k, "cf_check") /\ ~(jobs[k].rc = 0 /\ files[k].output \in fs)
                => files[k].output \notin fs'
          /\ Leaves(k, "ca_convert") /\ jobs'[k].rc # 0
                => jobs[k].archlist[jobs[k].member].output \notin fs']_vars

----------------------------------------------------------------------------
(* C8 *)

RunOver == sched.pc \in {"returned", "crashed"}

\* C8: no exception leaves a job, and when the run is over every queue entry
\* has been reached: it has a Skipped or a Started event, whatever the earlier
\* jobs did.
C8_FailureStaysInJob ==
    /\ \A k \in DOMAIN files : jobs[k].pc # "raised"
    /\ RunOver =>
          \A k \in DOMAIN files :
              \E i \in DOMAIN KindsOf(k) : KindsOf(k)[i] \in {"Skipped", "Started"}

----------------------------------------------------------------------------
(* C9 *)

CompletedPaths(k) ==
    {e.path : e \in {x \in Range(EventsOf(k)) : x.kind = "Completed"}}

\* the archive's output directory joined with a member's converted file name
MemberNamedPaths(k) ==
    {MkPath(files[k].output.dir, f.input.stem, chd) : f \in Range(jobs[k].archlist)}

\* C9 as stated: a member converted by an archive job goes to the archive's own
\* output path when no_rename is set, and to the archive's output directory
\* under the member's converted file name when it is not.
C9_DestinationAsStated ==
    \A k \in DOMAIN files :
        IsArchiveJob(k) =>
            CompletedPaths(k) \subseteq
                IF app.no_rename THEN {files[k].output} ELSE MemberNamedPaths(k)

\* C9 as amended: a member converted by an archive job goes to the archive's
\* output directory under the member's converted file name when no_rename is
\* set, and to the archive's own output path when it is not (the default).
C9_DestinationByRename ==
    \A k \in DOMAIN files :
        IsArchiveJob(k) =>
            CompletedPaths(k) \subseteq
                IF app.no_rename THEN MemberNamedPaths(k) ELSE {files[k].output}

\* with no_rename set, an archive job has reported a converted member, and the
\* file is on disk under the member's name
C9_Witness ==
    \E k \in DOMAIN files :
        /\ IsArchiveJob(k) /\ app.no_rename
        /\ CompletedPaths(k) # {}
        /\ CompletedPaths(k) \subseteq fs
        /\ files[k].output \notin CompletedPaths(k)

----------------------------------------------------------------------------
(* C10 *)

\* the archive's output directory with the archive's base name and .chd
ArchiveNamedPath(k) ==
    MkPath(IF app.output_dir = NoDir THEN files[k].input.dir ELSE app.output_dir,
           files[k].input.stem, chd)

SingleImageConverted(k) ==
    /\ IsArchiveJob(k) /\ jobs[k].pc = "done"
    /\ Len(jobs[k].archlist) = 1
    /\ jobs[k].archlist[1].type = "image"
    /\ CompletedPaths(k) # {}

\* C10: with the default settings (serial, renaming on), an archive job over a
\* single image member that reported Completed leaves the converted file at
\* the archive's output directory under the archive's base name, and nothing
\* under the member's name.
C10_SingleImageTakesArchiveName ==
    \A k \in DOMAIN files :
        ~app.parallel /\ ~app.no_rename /\ ~app.dry_run /\ SingleImageConverted(k) =>
            /\ ArchiveNamedPath(k) \in fs
            /\ MemberNamedPaths(k) \cap fs = {}
            /\ CompletedPaths(k) = {ArchiveNamedPath(k)}

\* such a run: serial, renaming on, one image member, Completed reported
C10_Witness ==
    \E k \in DOMAIN files :
        /\ ~app.parallel /\ ~app.no_rename /\ ~app.dry_run /\ app.output_dir = NoDir
        /\ SingleImageConverted(k)
        /\ ArchiveNamedPath(k) \in fs
        /\ sched.pc = "returned"

----------------------------------------------------------------------------
(* C11 *)

\* the directories of the batch that hold an entry with the suffix .gdi
GdiDirs(l) == {f.input.dir : f \in {g \in Range(l) : g.input.suffix = gdi}}

\* C11: after filter pass 1, a directory that held a .gdi entry keeps exactly
\* its .gdi entries, and the entries of every other directory are all kept, in
\* their original order.
C11_Pass1KeepsOnlyGdiInGdiDirs ==
    batch.passes >= 1 =>
        LET G == GdiDirs(batch.given)
            InG(f) == f.input.dir \in G
            GdiInG(f) == f.input.dir \in G /\ f.input.suffix = gdi
            Elsewhere(f) == f.input.dir \notin G
        IN  /\ SelectSeq(batch.pass1, InG) = SelectSeq(batch.given, GdiInG)
            /\ SelectSeq(batch.pass1, Elsewhere) = SelectSeq(batch.given, Elsewhere)

\* a batch with a .gdi, a companion of it, and two entries of another
\* directory has gone through pass 1
C11_Witness ==
    /\ batch.passes >= 1
    /\ Len(batch.given) = 3
    /\ Len(batch.pass1) = 2
    /\ GdiDirs(batch.given) # {}
    /\ \E f \in Range(batch.pass1) : f.input.dir \notin GdiDirs(batch.given)

----------------------------------------------------------------------------
(* C12 *)

\* C12: after both filter passes no entry that match_type classifies as image
\* shares a directory with an entry it classifies as sheet.
C12_NoImageBesideSheet ==
    batch.passes = 2 =>
        \A f, g \in Range(batch.pass2) :
            ~(f.type = "image" /\ g.type = "sheet" /\ f.input.dir = g.input.dir)

----------------------------------------------------------------------------
(* C13 *)

\* C13: in auto mode an input of exactly 750 * 1024 * 1024 bytes gets createcd
\* and an input of one byte more gets createdvd.
C13_OneByteOver750MBIsDvd ==
    cmd.subcommand # "none" /\ cmd.mode = "auto" /\ cmd.st_size.mib = 750 =>
        /\ cmd.st_size.rem = 0 => cmd.subcommand = "createcd"
        /\ cmd.st_size.rem = 1 => cmd.subcommand = "createdvd"

----------------------------------------------------------------------------
(* C14 *)

\* entry k has been processed: it has its Skipped or its Started message
Processed(k) == \E i \in DOMAIN KindsOf(k) : KindsOf(k)[i] \in {"Skipped", "Started"}

ProcessOver == exit_status.exited

\* C14: without emergency_break, after a SIGINT that arrived while job i was
\* waiting for an external process, App.convert is not left early, and when
\* the process has ended every queue entry after i has been processed.
C14_InterruptEndsOnlyItsJob ==
    \A n \in DOMAIN sigints : \A i \in sigints[n].blocked :
        ~app.emergency_break =>
            /\ sched.pc \notin {"sysexit", "crashed"}
            /\ ProcessOver => \A k \in DOMAIN files : k > i => Processed(k)

----------------------------------------------------------------------------
(* C15 *)

\* C15: with emergency_break, once a SIGINT has been received no queue entry
\* without a message so far gets one, and the process ends with status 255
\* and with every temporary directory released.
C15_EmergencyBreakStopsTheQueue ==
    [][app.emergency_break /\ sigints # <<>> =>
          /\ \A k \in DOMAIN files : EventsOf(k) = <<>> => EventsOf(k)' = <<>>
          /\ exit_status'.exited => exit_status'.code = 255 /\ tempdirs' = {}]_vars

----------------------------------------------------------------------------
(* C16 *)

\* a SIGINT arrived while a job was waiting for an external process
JobInterrupted == \E n \in DOMAIN sigints : sigints[n].blocked # {}

\* C16: the exit status is 0 after a run that returned without any SIGINT,
\* a nonzero status other than 255 after a run without emergency_break in
\* which a job was interrupted, and 255 after an emergency break.
C16_ExitStatusTellsHowItEnded ==
    ProcessOver =>
        /\ sigints = <<>> /\ sched.pc = "returned" => exit_status.code = 0
        /\ JobInterrupted /\ ~app.emergency_break /\ sched.pc = "returned"
              => exit_status.code \notin {0, 255}
        /\ sigints # <<>> /\ app.emergency_break => exit_status.code = 255

----------------------------------------------------------------------------
(* C17 *)

CountKind(kind) == Cardinality({i \in DOMAIN events : events[i].kind = kind})

\* C17: when App.convert has returned, in serial and in parallel mode, each
\* of the four counters equals the number of messages of its kind.
C17_CountersMatchEvents ==
    sched.pc = "returned" =>
        /\ stats.started = CountKind("Started")
        /\ stats.skipped = CountKind("Skipped")
        /\ stats.failed = CountKind("Failed")
        /\ stats.completed = CountKind("Completed")

----------------------------------------------------------------------------
(* C18 *)

NewEvents == {events'[i] : i \in (Len(events) + 1)..Len(events')}

\* C18: the k-th queue entry gets the index start_index + k - 1 when the loop
\* reaches it, skipped or dispatched, in queue order; every message of the
\* entry, member messages of an archive included, carries that index; and no
\* two entries share an index.
C18_IndicesFollowQueueOrder ==
    [][/\ \A k \in DOMAIN files :
             jobs[k].pc = "idle" /\ jobs'[k].pc # "idle" =>
                /\ sched.next = k
                /\ sched'.last_index = start_index + k
                /\ \A q \in DOMAIN files : q < k => jobs[q].pc # "idle"
       /\ \A e \in NewEvents :
             \E k \in DOMAIN files :
                /\ jobs'[k] # jobs[k]
                /\ e.idx = start_index + k - 1
                /\ e.kind \in {"Started", "Skipped"} => e.path = files[k].input
       /\ \A i, j \in DOMAIN events' :
             /\ events'[i].idx = events'[j].idx
             /\ events'[i].kind \in {"Started", "Skipped"}
             /\ events'[j].kind \in {"Started", "Skipped"}
             => i = j]_vars

\* a skipped entry and, after it, an archive that has reported a member
C18_Witness ==
    /\ Len(files) = 2
    /\ KindsOf(1) = <<"Skipped">>
    /\ IsArchiveJob(2)
    /\ \E i \in DOMAIN KindsOf(2) : KindsOf(2)[i] = "Completed"

----------------------------------------------------------------------------
(* C19 *)

\* C19: in parallel mode the jobs are submitted in queue order, and at no
\* moment more than app.threads jobs are executing (Started printed, not yet
\* finished).
C19_AtMostNExecuting ==
    [][app.parallel =>
          /\ Cardinality({k \in DOMAIN jobs : jobs'[k].pc \in ActivePcs}) <= app.threads
          /\ \A k \in DOMAIN files :
                jobs[k].pc = "idle" /\ jobs'[k].pc = "queued" =>
                    \A q \in DOMAIN files :
                        /\ q < k => jobs[q].pc # "idle"
                        /\ q > k => jobs[q].pc = "idle"]_vars

\* every worker is busy and a submitted job waits for one
C19_Witness ==
    /\ app.parallel
    /\ Cardinality(Executing) = app.threads
    /\ Queued # {}

----------------------------------------------------------------------------
(* C20 *)

\* C20: in parallel mode, when App.convert has returned no submitted job is
\* pending or executing: each has reached its end.
C20_ReturnsAfterAllJobs ==
    app.parallel /\ sched.pc = "returned" =>
        \A k \in DOMAIN files : jobs[k].pc \in {"skipped", "done", "raised"}

\* a parallel run over two dispatched jobs has returned
C20_Witness ==
    /\ app.parallel /\ sched.pc = "returned"
    /\ Len(files) = 2
    /\ \A k \in DOMAIN files : jobs[k].pc = "done" /\ ~jobs[k].existed

----------------------------------------------------------------------------
(* C21 *)

\* C21: in serial mode the messages are ordered by queue position: every
\* message of entry i comes before any message of a later entry j, and the
\* messages of one entry are either a single Skipped, or Started followed by
\* nothing but Completed and Failed.
C21_SerialEventsInQueueOrder ==
    ~app.parallel =>
        /\ \A i, j \in DOMAIN events : i < j => events[i].idx <= events[j].idx
        /\ \A k \in DOMAIN files :
              KindsOf(k) # <<>> =>
                  \/ KindsOf(k) = <<"Skipped">>
                  \/ /\ KindsOf(k)[1] = "Started"
                     /\ \A i \in 2..Len(KindsOf(k)) :
                            KindsOf(k)[i] \in {"Completed", "Failed"}

\* a serial run over two dispatched entries has returned, the first of them
\* an archive that reported two members
C21_Witness ==
    /\ ~app.parallel /\ sched.pc = "returned"
    /\ Len(files) = 2
    /\ Len(KindsOf(1)) = 3
    /\ KindsOf(2)[1] = "Started" /\ Len(KindsOf(2)) >= 2

----------------------------------------------------------------------------
(* C22 *)

\* C22: when an archive job has ended, every path it reported in a Completed
\* message is on disk.
C22_CompletedDestinationsRemain ==
    \A k \in DOMAIN files :
        IsArchiveJob(k) /\ jobs[k].pc = "done" => CompletedPaths(k) \subseteq fs

----------------------------------------------------------------------------
(* C23 *)

\* the output paths job k writes to, deletes or moves onto: file.output for an
\* image or a sheet, the destinations of its members for an archive
Targets(k) ==
    IF files[k].type = "archive"
    THEN {DestPath(files[k], jobs[k].archlist[m], app.no_rename) :
              m \in DOMAIN jobs[k].archlist}
    ELSE {files[k].output}

\* C23: in parallel mode no two jobs that are executing at the same moment
\* work on the same output path.
C23_OneJobPerOutputPath ==
    app.parallel =>
        \A k, q \in Executing : k # q => Targets(k) \cap Targets(q) = {}

====
